---- MODULE Spec2Model ----
(***************************************************************************)
(* Fallback block processing of a shard node                               *)
(* (src/src/libNode/FallbackBlockProcessing.cpp):                          *)
(*   Node::UpdateDSCommittee, Node::VerifyFallbackBlockCoSignature and     *)
(*   Node::ProcessFallbackBlock, run by handler threads over the shared    *)
(*   node state.                                                           *)
(***************************************************************************)
EXTENDS Integers, Sequences, FiniteSets, TLC

\* ------------------------------------------------------------------ bounds

\* Largest shard (and longest co-signature bitmap) explored.
MaxShardSize == 4

\* Fallback blocks carry an epoch number in 0..MaxEpoch.
MaxEpoch == 2

\* ------------------------------------------------------------- data model

Keys == {"k1", "k2"}
Peers == {"p1", "p2"}

\* A shard node: the (PubKey, Peer) part of a shard tuple.
ShardNode == [pubkey : Keys, peer : Peers]

Node(k, p) == [pubkey |-> k, peer |-> p]

\* Sequences over S of length at most n.
SeqsUpTo(S, n) == UNION {[1..l -> S] : l \in 0..n}

\* A shard: an ordered member list.
Shards == SeqsUpTo(ShardNode, MaxShardSize)

\* Co-signature bitmaps (vector<bool>); one slot longer than any shard, so
\* that a bitmap can be longer than the largest shard.
BitMaps == SeqsUpTo(BOOLEAN, MaxShardSize + 1)

Threads == {"t1", "t2"}

None == "none"

\* ------------------------------------------------------------------ state

VARIABLES
    m_shards,                 \* m_mediator.m_ds->m_shards
    m_DSCommittee,            \* *m_mediator.m_DSCommittee (a deque)
    mutexDSCommittee,         \* holder of m_mediator.m_mutexDSCommittee
    m_state,                  \* Node::m_state
    m_currentEpochNum,        \* m_mediator.m_currentEpochNum
    stateRootHash,            \* AccountStore::GetInstance().GetStateRootHash()
    lookupNodeMode,           \* LOOKUP_NODE_MODE
    m_processedTransactions,  \* epochs that have an entry in the map
    createdTransactions,      \* TRUE: created transactions are held
    microblockConsensusBuffer,\* TRUE: the buffer holds messages
    tempAccountStore,         \* "dirty" or "fresh" (after InitTemp)
    m_consensusID,            \* m_mediator.m_consensusID
    m_consensusLeaderID,      \* Node::m_consensusLeaderID
    powInitiated,             \* number of InitiatePoW calls made
    detachedTasks,            \* ScheduleFallbackTimeout threads launched
    mutexCVFallbackBlock,     \* holder of m_MutexCVFallbackBlock
    cvWaiters,                \* threads blocked in cv_fallbackBlock.wait_for
    watchdogsRun,             \* ScheduleFallbackTimeout threads that have run
    lastUpdate,               \* arguments of the last finished UpdateDSCommittee
    pc,                       \* each thread's position
    entry,                    \* each thread's entry point
    msg,                      \* the decoded FallbackBlock of the invocation
    crypto,                   \* what the crypto primitives return for it
    cosig,                    \* outcome of VerifyFallbackBlockCoSignature
    updArgs,                  \* arguments of the running UpdateDSCommittee
    idx,                      \* loop position inside UpdateDSCommittee
    gate,                     \* how the readiness gate was left
    expired,                  \* the wait_for deadline has passed
    wokenBy,                  \* what woke a thread blocked in wait_for
    ret,                      \* the invocation's return value
    retSite,                  \* source line of the return taken
    calls,                    \* calls made by the invocation, in order
    pre                       \* node data when the invocation started

nodeData == <<m_DSCommittee, m_processedTransactions, createdTransactions,
              microblockConsensusBuffer, tempAccountStore, m_consensusID,
              m_consensusLeaderID, powInitiated, detachedTasks>>

nodeVars == <<m_shards, m_DSCommittee, mutexDSCommittee, m_state,
              m_currentEpochNum, stateRootHash, lookupNodeMode,
              m_processedTransactions, createdTransactions,
              microblockConsensusBuffer, tempAccountStore, m_consensusID,
              m_consensusLeaderID, powInitiated, detachedTasks,
              mutexCVFallbackBlock, cvWaiters, watchdogsRun, lastUpdate>>

threadVars == <<pc, entry, msg, crypto, cosig, updArgs, idx, gate, expired,
                wokenBy, ret, retSite, calls, pre>>

vars == <<nodeVars, threadVars>>

\* ------------------------------------------------- Node::UpdateDSCommittee

\* Mutant of ClearCommittee: the clear() of line 45 left out.
ClearCommitteeSkipped(committee) == committee

\* m_DSCommittee->clear()
ClearCommittee(committee) == <<>>

\* Mutant of IsLeader: the key alone decides.
IsLeaderByKey(shardNode, leaderPubKey, leaderNetworkInfo) ==
    shardNode.pubkey = leaderPubKey

\* The test of lines 49-50: both the key and the peer must match.
IsLeader(shardNode, leaderPubKey, leaderNetworkInfo) ==
    shardNode.pubkey = leaderPubKey /\ shardNode.peer = leaderNetworkInfo

\* Mutant of PushFront: the leader appended like any other member.
PushFrontAtBack(committee, leaderPubKey, leaderNetworkInfo) ==
    Append(committee, Node(leaderPubKey, leaderNetworkInfo))

\* push_front({leaderPubKey, leaderNetworkInfo})
PushFront(committee, leaderPubKey, leaderNetworkInfo) ==
    <<Node(leaderPubKey, leaderNetworkInfo)>> \o committee

\* push_back({pubkey of shardNode, peer of shardNode})
PushBack(committee, shardNode) ==
    Append(committee, Node(shardNode.pubkey, shardNode.peer))

\* One iteration of the loop of lines 47-61.
InsertShardNode(committee, shardNode, leaderPubKey, leaderNetworkInfo) ==
    IF IsLeader(shardNode, leaderPubKey, leaderNetworkInfo)
    THEN PushFront(committee, leaderPubKey, leaderNetworkInfo)
    ELSE PushBack(committee, shardNode)

\* The shard an in-range shard_id names (m_shards is indexed from 0).
ShardAt(shards, shard_id) == shards[shard_id + 1]

\* The loop of lines 47-61 from member i on.
RECURSIVE Rebuild(_, _, _, _, _)
Rebuild(committee, shard, i, leaderPubKey, leaderNetworkInfo) ==
    IF i > Len(shard) THEN committee
    ELSE Rebuild(InsertShardNode(committee, shard[i], leaderPubKey,
                                 leaderNetworkInfo),
                 shard, i + 1, leaderPubKey, leaderNetworkInfo)

\* Lines 45-61 run without interruption: the committee a call with the
\* arguments args leaves.
Reconstituted(shards, args) ==
    Rebuild(<<>>, ShardAt(shards, args.shard_id), 1, args.leaderPubKey,
            args.leaderNetworkInfo)

\* --------------------------------- Node::VerifyFallbackBlockCoSignature

\* ConsensusCommon::NumForConsensus: the smallest count strictly above
\* two thirds of the shard.
NumForConsensus(shardSize) == (2 * shardSize) \div 3 + 1

\* Mutant of SizeMismatch: only a bitmap shorter than the shard is refused.
SizeMismatchShortOnly(shard, B2) == Len(shard) > Len(B2)

\* Line 74: the shard's size against the bitmap's.
SizeMismatch(shard, B2) == Len(shard) # Len(B2)

\* Lines 87-95: the keys of the members whose B2 bit is set, in shard
\* order, taking the members from position index on.
RECURSIVE CollectKeys(_, _, _)
CollectKeys(shard, B2, index) ==
    IF index > Len(shard) THEN <<>>
    ELSE (IF B2[index] THEN <<shard[index].pubkey>> ELSE <<>>)
         \o CollectKeys(shard, B2, index + 1)

\* Mutant of QuorumMissed: the comparison turned round, so that only a
\* count above the number needed is refused.
QuorumMissedAbove(count, B2) == count > NumForConsensus(Len(B2))

\* Line 97: the signer count against the number needed for consensus.
QuorumMissed(count, B2) == count # NumForConsensus(Len(B2))

\* What one run of the verifier leaves behind: its result, the line of the
\* return taken, the keys collected, the crypto primitives invoked, and
\* whether m_shards was indexed out of range.
Outcome(r, site, keys, called, oob) ==
    [ret |-> r, site |-> site, keys |-> keys, calls |-> called,
     oob |-> oob, crashed |-> FALSE]

NoOutcome == Outcome(FALSE, 0, <<>>, <<>>, FALSE)

\* Lines 73-127 on the shard that m_shards[shard_id] yielded. cr holds what
\* MultiSig::AggregatePubKeys and Schnorr::Verify return for this block.
VerifyOnShard(shard, blk, cr, oob) ==
    IF SizeMismatch(shard, blk.B2)
    THEN Outcome(FALSE, 81, <<>>, <<>>, oob)
    ELSE LET keys == CollectKeys(shard, blk.B2, 1)
             count == Len(keys)
         IN  IF QuorumMissed(count, blk.B2)
             THEN Outcome(FALSE, 100, keys, <<>>, oob)
             ELSE IF ~cr.aggregated
             THEN Outcome(FALSE, 107, keys, <<"AggregatePubKeys">>, oob)
             ELSE IF ~cr.cs2Valid
             THEN Outcome(FALSE, 124, keys,
                          <<"AggregatePubKeys", "Schnorr::Verify">>, oob)
             ELSE Outcome(TRUE, 127, keys,
                          <<"AggregatePubKeys", "Schnorr::Verify">>, oob)

\* Lines 71-74: m_shards[shard_id] is an unchecked index. In range it
\* yields the shard; out of range the behaviour is undefined: the run may
\* crash, or go on with whatever the read produced.
VerifyFallbackBlockCoSignature(shards, blk, cr) ==
    IF blk.shardId < Len(shards)
    THEN {VerifyOnShard(ShardAt(shards, blk.shardId), blk, cr, FALSE)}
    ELSE {[Outcome(FALSE, 74, <<>>, <<>>, TRUE) EXCEPT !.crashed = TRUE]}
         \cup {VerifyOnShard(garbage, blk, cr, TRUE) : garbage \in Shards}

\* ------------------------------------------------------------ blocks, init

Roots == {"r0", "r1"}

\* CS2 either is a signature of the reconstructed message (header, CS1,
\* B1) under the aggregate of the keys B2 flags, or is not.
Signatures == {"valid", "invalid"}

NoCrypto == [aggregated |-> FALSE, cs2Valid |-> FALSE]

\* What the crypto primitives return for a block: AggregatePubKeys a key or
\* nullptr, Schnorr::Verify whether CS2 is valid.
CryptoResults(blk) ==
    {[aggregated |-> a, cs2Valid |-> (blk.CS2 = "valid")] : a \in BOOLEAN}

Block(e, s, l, k, p, r, b, c) ==
    [epoch |-> e, shardId |-> s, leaderConsensusId |-> l, leaderPubKey |-> k,
     leaderNetworkInfo |-> p, stateRootHash |-> r, B2 |-> b, CS2 |-> c]

\* msg[t] before a block has been decoded.
NoBlock == Block(-1, 0, 0, "k1", "p1", "r0", <<>>, "invalid")

NoArgs == [shard_id |-> -1, leaderPubKey |-> "k1", leaderNetworkInfo |-> "p1"]

Args(s, k, p) == [shard_id |-> s, leaderPubKey |-> k, leaderNetworkInfo |-> p]

\* A shard of n members, distinct up to four: prefixes of one roster.
RosterNode(i) ==
    <<Node("k1", "p1"), Node("k2", "p2"), Node("k1", "p2"),
      Node("k2", "p1")>>[((i - 1) % 4) + 1]

Roster(n) == [i \in 1..n |-> RosterNode(i)]

\* A second shard, so that shard ids select among shards.
OtherShard == <<Node("k2", "p1"), Node("k1", "p1")>>

\* The node data an invocation may touch, as a value.
Snapshot ==
    [committee |-> m_DSCommittee, processed |-> m_processedTransactions,
     created |-> createdTransactions, buffer |-> microblockConsensusBuffer,
     temp |-> tempAccountStore, consensusID |-> m_consensusID,
     consensusLeaderID |-> m_consensusLeaderID, pow |-> powInitiated,
     detached |-> detachedTasks, lastUpdate |-> lastUpdate]

\* Everything but the shard directory, the committee and the mode: a node in
\* the middle of an epoch, with one thread ready to be entered.
InitRest ==
    /\ mutexDSCommittee = None
    /\ m_currentEpochNum = 1
    /\ stateRootHash = "r0"
    /\ m_processedTransactions = 0..MaxEpoch
    /\ createdTransactions = TRUE
    /\ microblockConsensusBuffer = TRUE
    /\ tempAccountStore = "dirty"
    /\ m_consensusID = 1
    /\ m_consensusLeaderID = 1
    /\ powInitiated = 0
    /\ detachedTasks = 0
    /\ mutexCVFallbackBlock = None
    /\ cvWaiters = {}
    /\ watchdogsRun = 0
    /\ lastUpdate = NoArgs
    /\ pc = [t \in Threads |-> IF t = "t1" THEN "idle" ELSE "off"]
    /\ entry = [t \in Threads |-> None]
    /\ msg = [t \in Threads |-> NoBlock]
    /\ crypto = [t \in Threads |-> NoCrypto]
    /\ cosig = [t \in Threads |-> NoOutcome]
    /\ updArgs = [t \in Threads |-> NoArgs]
    /\ idx = [t \in Threads |-> 0]
    /\ gate = [t \in Threads |-> None]
    /\ expired = [t \in Threads |-> FALSE]
    /\ wokenBy = [t \in Threads |-> None]
    /\ ret = [t \in Threads |-> FALSE]
    /\ retSite = [t \in Threads |-> 0]
    /\ calls = [t \in Threads |-> <<>>]
    /\ pre = [t \in Threads |-> Snapshot]

\* ------------------------------------ UpdateDSCommittee, step by step

\* Where UpdateDSCommittee returns to.
AfterUpdate(t) == IF entry[t] = "ProcessFallbackBlock" THEN "notify" ELSE "done"

\* Mutant of UpdLock: the lock_guard of line 43 left out.
UpdLockNotTaken(t) ==
    /\ pc[t] = "upd_lock"
    /\ mutexDSCommittee' = mutexDSCommittee
    /\ calls' = [calls EXCEPT ![t] = Append(@, "UpdateDSCommittee")]
    /\ pc' = [pc EXCEPT ![t] = "upd_clear"]
    /\ UNCHANGED <<m_shards, m_DSCommittee, m_state, m_currentEpochNum,
                   stateRootHash, lookupNodeMode, m_processedTransactions,
                   createdTransactions, microblockConsensusBuffer,
                   tempAccountStore, m_consensusID, m_consensusLeaderID,
                   powInitiated, detachedTasks, mutexCVFallbackBlock,
                   cvWaiters, watchdogsRun, lastUpdate>>
    /\ UNCHANGED <<entry, msg, crypto, cosig, updArgs, idx, gate, expired,
                   wokenBy, ret, retSite, pre>>

\* Line 43: lock_guard on m_mutexDSCommittee.
UpdLock(t) ==
    /\ pc[t] = "upd_lock"
    /\ mutexDSCommittee = None
    /\ mutexDSCommittee' = t
    /\ calls' = [calls EXCEPT ![t] = Append(@, "UpdateDSCommittee")]
    /\ pc' = [pc EXCEPT ![t] = "upd_clear"]
    /\ UNCHANGED <<m_shards, m_DSCommittee, m_state, m_currentEpochNum,
                   stateRootHash, lookupNodeMode, m_processedTransactions,
                   createdTransactions, microblockConsensusBuffer,
                   tempAccountStore, m_consensusID, m_consensusLeaderID,
                   powInitiated, detachedTasks, mutexCVFallbackBlock,
                   cvWaiters, watchdogsRun, lastUpdate>>
    /\ UNCHANGED <<entry, msg, crypto, cosig, updArgs, idx, gate, expired,
                   wokenBy, ret, retSite, pre>>

\* Line 45: clear().
UpdClear(t) ==
    /\ pc[t] = "upd_clear"
    /\ m_DSCommittee' = ClearCommittee(m_DSCommittee)
    /\ idx' = [idx EXCEPT ![t] = 1]
    /\ pc' = [pc EXCEPT ![t] = "upd_loop"]
    /\ UNCHANGED <<m_shards, mutexDSCommittee, m_state, m_currentEpochNum,
                   stateRootHash, lookupNodeMode, m_processedTransactions,
                   createdTransactions, microblockConsensusBuffer,
                   tempAccountStore, m_consensusID, m_consensusLeaderID,
                   powInitiated, detachedTasks, mutexCVFallbackBlock,
                   cvWaiters, watchdogsRun, lastUpdate>>
    /\ UNCHANGED <<entry, msg, crypto, cosig, updArgs, gate, expired,
                   wokenBy, ret, retSite, calls, pre>>

\* Lines 47-61: one shard member per step, in shard order.
UpdLoop(t) ==
    /\ pc[t] = "upd_loop"
    /\ LET shard == ShardAt(m_shards, updArgs[t].shard_id)
       IN  IF idx[t] <= Len(shard)
           THEN /\ m_DSCommittee' =
                       InsertShardNode(m_DSCommittee, shard[idx[t]],
                                       updArgs[t].leaderPubKey,
                                       updArgs[t].leaderNetworkInfo)
                /\ idx' = [idx EXCEPT ![t] = idx[t] + 1]
                /\ pc' = pc
           ELSE /\ pc' = [pc EXCEPT ![t] = "upd_unlock"]
                /\ UNCHANGED <<m_DSCommittee, idx>>
    /\ UNCHANGED <<m_shards, mutexDSCommittee, m_state, m_currentEpochNum,
                   stateRootHash, lookupNodeMode, m_processedTransactions,
                   createdTransactions, microblockConsensusBuffer,
                   tempAccountStore, m_consensusID, m_consensusLeaderID,
                   powInitiated, detachedTasks, mutexCVFallbackBlock,
                   cvWaiters, watchdogsRun, lastUpdate>>
    /\ UNCHANGED <<entry, msg, crypto, cosig, updArgs, gate, expired,
                   wokenBy, ret, retSite, calls, pre>>

\* Line 62: the lock_guard is released as the function returns.
UpdUnlock(t) ==
    /\ pc[t] = "upd_unlock"
    /\ mutexDSCommittee' = None
    /\ lastUpdate' = updArgs[t]
    /\ pc' = [pc EXCEPT ![t] = AfterUpdate(t)]
    /\ UNCHANGED <<m_shards, m_DSCommittee, m_state, m_currentEpochNum,
                   stateRootHash, lookupNodeMode, m_processedTransactions,
                   createdTransactions, microblockConsensusBuffer,
                   tempAccountStore, m_consensusID, m_consensusLeaderID,
                   powInitiated, detachedTasks, mutexCVFallbackBlock,
                   cvWaiters, watchdogsRun>>
    /\ UNCHANGED <<entry, msg, crypto, cosig, updArgs, idx, gate, expired,
                   wokenBy, ret, retSite, calls, pre>>

\* ------------------------------------------------------- direct callers

\* UpdateDSCommittee called on its own (tests, adjacent protocol code), with
\* a shard id that names a shard.
DirectUpdate(t) ==
    /\ pc[t] \in {"idle", "done"}
    /\ \E s \in 0..(Len(m_shards) - 1), k \in Keys, p \in Peers :
           updArgs' = [updArgs EXCEPT ![t] = Args(s, k, p)]
    /\ entry' = [entry EXCEPT ![t] = "UpdateDSCommittee"]
    /\ pre' = [pre EXCEPT ![t] = Snapshot]
    /\ idx' = [idx EXCEPT ![t] = 0]
    /\ calls' = [calls EXCEPT ![t] = <<>>]
    /\ pc' = [pc EXCEPT ![t] = "upd_lock"]
    /\ UNCHANGED nodeVars
    /\ UNCHANGED <<msg, crypto, cosig, gate, expired, wokenBy, ret, retSite>>

\* The blocks handed to the verifier when it is called on its own: any
\* shard id, known or not, and any bitmap.
VerifierBlocks ==
    {Block(1, s, 0, "k1", "p1", "r0", b, c) :
        s \in 0..2, b \in BitMaps, c \in Signatures}

\* VerifyFallbackBlockCoSignature called on its own.
DirectVerify(t) ==
    /\ pc[t] = "idle"
    /\ \E blk \in VerifierBlocks :
        \E cr \in CryptoResults(blk) :
         \E o \in VerifyFallbackBlockCoSignature(m_shards, blk, cr) :
           /\ msg' = [msg EXCEPT ![t] = blk]
           /\ crypto' = [crypto EXCEPT ![t] = cr]
           /\ cosig' = [cosig EXCEPT ![t] = o]
           /\ ret' = [ret EXCEPT ![t] = o.ret]
           /\ retSite' = [retSite EXCEPT ![t] = o.site]
           /\ calls' = [calls EXCEPT ![t] = o.calls]
           /\ pc' = [pc EXCEPT ![t] = IF o.crashed THEN "crashed" ELSE "done"]
    /\ entry' = [entry EXCEPT ![t] = "VerifyFallbackBlockCoSignature"]
    /\ UNCHANGED nodeVars
    /\ UNCHANGED <<updArgs, idx, gate, expired, wokenBy, pre>>

\* ---------------------------------------------- Node::ProcessFallbackBlock

\* Node::CheckState(PROCESS_FALLBACKBLOCK): whether the node's state
\* permits processing a fallback block.
CheckState(state) == state = "WAITING_FALLBACKBLOCK"

\* Mutant of WaitPredicate: the comparison inverted.
WaitPredicateInverted(state) == state # "WAITING_FALLBACKBLOCK"

\* Line 147: the predicate handed to wait_for.
WaitPredicate(state) == state = "WAITING_FALLBACKBLOCK"

\* Mutant of EpochMismatch: only blocks of an earlier epoch are refused.
EpochMismatchEarlierOnly(blk, currentEpochNum) == blk.epoch < currentEpochNum

\* Lines 169-170.
EpochMismatch(blk, currentEpochNum) == blk.epoch # currentEpochNum

\* Line 184.
ShardMissing(blk, shards) == blk.shardId >= Len(shards)

\* Line 194.
LeaderIdOutOfRange(blk, shards) ==
    blk.leaderConsensusId >= Len(ShardAt(shards, blk.shardId))

\* Mutant of LeaderFound: the peer left out of the comparison.
LeaderFoundByKey(blk, shards) ==
    \E i \in 1..Len(ShardAt(shards, blk.shardId)) :
        blk.leaderPubKey = ShardAt(shards, blk.shardId)[i].pubkey

\* Mutant of LeaderFound: the claimed (key, peer) looked up at index
\* leaderConsensusId only.
LeaderFoundAtConsensusId(blk, shards) ==
    /\ blk.leaderPubKey
          = ShardAt(shards, blk.shardId)[blk.leaderConsensusId + 1].pubkey
    /\ blk.leaderNetworkInfo
          = ShardAt(shards, blk.shardId)[blk.leaderConsensusId + 1].peer

\* Lines 211-219: find_if over the shard for the claimed (key, peer).
LeaderFound(blk, shards) ==
    \E i \in 1..Len(ShardAt(shards, blk.shardId)) :
        /\ blk.leaderPubKey = ShardAt(shards, blk.shardId)[i].pubkey
        /\ blk.leaderNetworkInfo = ShardAt(shards, blk.shardId)[i].peer

\* Mutant of RootMismatch: the header's root compared with itself.
RootMismatchSelf(blk, root) == blk.stateRootHash # blk.stateRootHash

\* Lines 230-231.
RootMismatch(blk, root) == root # blk.stateRootHash

\* Bitmaps whose set flags come first: n slots, the first k set.
PrefixBitMaps ==
    {[i \in 1..n |-> i <= k] : n \in 0..(MaxShardSize + 1), k \in 0..(MaxShardSize + 1)}

\* The blocks Messenger::GetNodeFallbackBlock may yield.
FallbackBlocks ==
    {Block(e, s, l, k, p, r, b, c) :
        e \in 0..MaxEpoch, s \in 0..2, l \in 0..MaxShardSize,
        k \in Keys, p \in Peers, r \in Roots, b \in PrefixBitMaps,
        c \in Signatures}

\* The handler is entered with a message.
Call(t) ==
    /\ pc[t] = "idle"
    /\ entry' = [entry EXCEPT ![t] = "ProcessFallbackBlock"]
    /\ pre' = [pre EXCEPT ![t] = Snapshot]
    /\ calls' = [calls EXCEPT ![t] = <<>>]
    /\ pc' = [pc EXCEPT ![t] = "check_state"]
    /\ UNCHANGED nodeVars
    /\ UNCHANGED <<msg, crypto, cosig, updArgs, idx, gate, expired, wokenBy,
                   ret, retSite>>

\* A return of the handler: its value and the line it is on.
Return(t, value, site) ==
    /\ ret' = [ret EXCEPT ![t] = value]
    /\ retSite' = [retSite EXCEPT ![t] = site]
    /\ pc' = [pc EXCEPT ![t] = "done"]

\* Line 138.
CheckStateStep(t) ==
    /\ pc[t] = "check_state"
    /\ calls' = [calls EXCEPT ![t] = Append(@, "CheckState")]
    /\ IF CheckState(m_state)
       THEN /\ gate' = [gate EXCEPT ![t] = "ready"]
            /\ pc' = [pc EXCEPT ![t] = "decode"]
       ELSE /\ gate' = gate
            /\ pc' = [pc EXCEPT ![t] = "gate_lock"]
    /\ UNCHANGED nodeVars
    /\ UNCHANGED <<entry, msg, crypto, cosig, updArgs, idx, expired,
                   wokenBy, ret, retSite, pre>>

\* Line 144: unique_lock on m_MutexCVFallbackBlock; wait_for is entered.
GateLock(t) ==
    /\ pc[t] = "gate_lock"
    /\ mutexCVFallbackBlock = None
    /\ mutexCVFallbackBlock' = t
    /\ calls' = [calls EXCEPT ![t] = Append(@, "wait_for")]
    /\ pc' = [pc EXCEPT ![t] = "gate_pred"]
    /\ UNCHANGED <<m_shards, m_DSCommittee, mutexDSCommittee, m_state,
                   m_currentEpochNum, stateRootHash, lookupNodeMode,
                   m_processedTransactions, createdTransactions,
                   microblockConsensusBuffer, tempAccountStore,
                   m_consensusID, m_consensusLeaderID, powInitiated,
                   detachedTasks, cvWaiters, watchdogsRun, lastUpdate>>
    /\ UNCHANGED <<entry, msg, crypto, cosig, updArgs, idx, gate, expired,
                   wokenBy, ret, retSite, pre>>

\* Lines 145-147: wait_for tests its predicate under the lock; if it holds
\* wait_for returns true (and the lock goes with the block), otherwise the
\* lock is released and the thread blocks on cv_fallbackBlock.
GatePred(t) ==
    /\ pc[t] = "gate_pred"
    /\ mutexCVFallbackBlock' = None
    /\ IF WaitPredicate(m_state)
       THEN /\ gate' = [gate EXCEPT ![t] = "waited"]
            /\ pc' = [pc EXCEPT ![t] = "decode"]
            /\ cvWaiters' = cvWaiters
            /\ expired' = [expired EXCEPT ![t] = FALSE]
       ELSE /\ gate' = gate
            /\ pc' = [pc EXCEPT ![t] = "gate_blocked"]
            /\ cvWaiters' = cvWaiters \cup {t}
            /\ expired' = expired
    /\ UNCHANGED <<m_shards, m_DSCommittee, mutexDSCommittee, m_state,
                   m_currentEpochNum, stateRootHash, lookupNodeMode,
                   m_processedTransactions, createdTransactions,
                   microblockConsensusBuffer, tempAccountStore,
                   m_consensusID, m_consensusLeaderID, powInitiated,
                   detachedTasks, watchdogsRun, lastUpdate>>
    /\ UNCHANGED <<entry, msg, crypto, cosig, updArgs, idx, wokenBy, ret,
                   retSite, calls, pre>>

\* FALLBACK_EXTRA_TIME seconds have passed since wait_for was entered.
TimerExpire(t) ==
    /\ pc[t] \in {"gate_pred", "gate_blocked", "gate_wake"}
    /\ ~expired[t]
    /\ expired' = [expired EXCEPT ![t] = TRUE]
    /\ UNCHANGED nodeVars
    /\ UNCHANGED <<pc, entry, msg, crypto, cosig, updArgs, idx, gate,
                   wokenBy, ret, retSite, calls, pre>>

\* The blocked thread is woken by the deadline.
GateTimeout(t) ==
    /\ pc[t] = "gate_blocked"
    /\ expired[t]
    /\ cvWaiters' = cvWaiters \ {t}
    /\ wokenBy' = [wokenBy EXCEPT ![t] = "deadline"]
    /\ pc' = [pc EXCEPT ![t] = "gate_wake"]
    /\ UNCHANGED <<m_shards, m_DSCommittee, mutexDSCommittee, m_state,
                   m_currentEpochNum, stateRootHash, lookupNodeMode,
                   m_processedTransactions, createdTransactions,
                   microblockConsensusBuffer, tempAccountStore,
                   m_consensusID, m_consensusLeaderID, powInitiated,
                   detachedTasks, mutexCVFallbackBlock, watchdogsRun,
                   lastUpdate>>
    /\ UNCHANGED <<entry, msg, crypto, cosig, updArgs, idx, gate, expired,
                   ret, retSite, calls, pre>>

\* A woken thread takes the lock again; past the deadline the wait reports
\* a timeout and wait_for returns its predicate, otherwise it loops.
GateWake(t) ==
    /\ pc[t] = "gate_wake"
    /\ mutexCVFallbackBlock = None
    /\ mutexCVFallbackBlock' = t
    /\ wokenBy' = [wokenBy EXCEPT ![t] = None]
    /\ pc' = [pc EXCEPT ![t] = IF expired[t] THEN "gate_final" ELSE "gate_pred"]
    /\ UNCHANGED <<m_shards, m_DSCommittee, mutexDSCommittee, m_state,
                   m_currentEpochNum, stateRootHash, lookupNodeMode,
                   m_processedTransactions, createdTransactions,
                   microblockConsensusBuffer, tempAccountStore,
                   m_consensusID, m_consensusLeaderID, powInitiated,
                   detachedTasks, cvWaiters, watchdogsRun, lastUpdate>>
    /\ UNCHANGED <<entry, msg, crypto, cosig, updArgs, idx, gate, expired,
                   ret, retSite, calls, pre>>

\* Mutant of GateFinal: a timeout is a failure whatever the predicate says.
GateFinalTimeoutFails(t) ==
    /\ pc[t] = "gate_final"
    /\ mutexCVFallbackBlock' = None
    /\ expired' = [expired EXCEPT ![t] = FALSE]
    /\ gate' = [gate EXCEPT ![t] = "timeout"]
    /\ Return(t, FALSE, 156)
    /\ UNCHANGED <<m_shards, m_DSCommittee, mutexDSCommittee, m_state,
                   m_currentEpochNum, stateRootHash, lookupNodeMode,
                   m_processedTransactions, createdTransactions,
                   microblockConsensusBuffer, tempAccountStore,
                   m_consensusID, m_consensusLeaderID, powInitiated,
                   detachedTasks, cvWaiters, watchdogsRun, lastUpdate>>
    /\ UNCHANGED <<entry, msg, crypto, cosig, updArgs, idx, wokenBy, calls,
                   pre>>

\* Lines 145-157 after a timeout: wait_for returns the predicate's value;
\* false is the return of line 156.
GateFinal(t) ==
    /\ pc[t] = "gate_final"
    /\ mutexCVFallbackBlock' = None
    /\ expired' = [expired EXCEPT ![t] = FALSE]
    /\ IF WaitPredicate(m_state)
       THEN /\ gate' = [gate EXCEPT ![t] = "waited"]
            /\ pc' = [pc EXCEPT ![t] = "decode"]
            /\ UNCHANGED <<ret, retSite>>
       ELSE /\ gate' = [gate EXCEPT ![t] = "timeout"]
            /\ Return(t, FALSE, 156)
    /\ UNCHANGED <<m_shards, m_DSCommittee, mutexDSCommittee, m_state,
                   m_currentEpochNum, stateRootHash, lookupNodeMode,
                   m_processedTransactions, createdTransactions,
                   microblockConsensusBuffer, tempAccountStore,
                   m_consensusID, m_consensusLeaderID, powInitiated,
                   detachedTasks, cvWaiters, watchdogsRun, lastUpdate>>
    /\ UNCHANGED <<entry, msg, crypto, cosig, updArgs, idx, wokenBy, calls,
                   pre>>

\* cv_fallbackBlock.notify_all() by the owner of m_state: every blocked
\* thread is woken.
NotifyAll ==
    /\ cvWaiters' = {}
    /\ wokenBy' = [u \in Threads |->
                      IF u \in cvWaiters THEN "state" ELSE wokenBy[u]]
    /\ pc' = [u \in Threads |-> IF u \in cvWaiters THEN "gate_wake" ELSE pc[u]]

\* Lines 160-167: the codec yields one of the given blocks or fails.
DecodeFrom(t, blocks) ==
    /\ pc[t] = "decode"
    /\ calls' = [calls EXCEPT ![t] = Append(@, "GetNodeFallbackBlock")]
    /\ \/ /\ Return(t, FALSE, 166)
          /\ msg' = msg
       \/ /\ \E blk \in blocks : msg' = [msg EXCEPT ![t] = blk]
          /\ pc' = [pc EXCEPT ![t] = "check_epoch"]
          /\ UNCHANGED <<ret, retSite>>
    /\ UNCHANGED nodeVars
    /\ UNCHANGED <<entry, crypto, cosig, updArgs, idx, gate, expired,
                   wokenBy, pre>>

\* Lines 160-167 over every block.
Decode(t) == DecodeFrom(t, FallbackBlocks)

\* A block the handler accepts on the first shard, and its variants that
\* fail one check each.
AcceptedBlock ==
    Block(1, 0, 0, "k2", "p2", "r0",
          [i \in 1..MaxShardSize |-> i <= NumForConsensus(MaxShardSize)],
          "valid")

SampleBlocks ==
    {AcceptedBlock,
     [AcceptedBlock EXCEPT !.epoch = 0],
     [AcceptedBlock EXCEPT !.shardId = 2],
     [AcceptedBlock EXCEPT !.shardId = 1, !.leaderConsensusId = 2],
     [AcceptedBlock EXCEPT !.shardId = 1],
     [AcceptedBlock EXCEPT !.stateRootHash = "r1"],
     [AcceptedBlock EXCEPT !.B2 = <<TRUE>>],
     [AcceptedBlock EXCEPT !.B2 = [i \in 1..MaxShardSize |-> TRUE]],
     [AcceptedBlock EXCEPT !.CS2 = "invalid"]}

\* Valid blocks of the current epoch: two on the first shard that name
\* different leaders, and one on the second shard.
RaceBlocks ==
    {AcceptedBlock,
     [AcceptedBlock EXCEPT !.leaderPubKey = "k1", !.leaderNetworkInfo = "p1"],
     [AcceptedBlock EXCEPT !.shardId = 1, !.leaderPubKey = "k1",
                           !.leaderNetworkInfo = "p1",
                           !.B2 = [i \in 1..Len(OtherShard) |-> TRUE]]}

\* Lines 169-180.
CheckEpoch(t) ==
    /\ pc[t] = "check_epoch"
    /\ IF EpochMismatch(msg[t], m_currentEpochNum)
       THEN Return(t, FALSE, 179)
       ELSE /\ pc' = [pc EXCEPT ![t] = "check_shard"]
            /\ UNCHANGED <<ret, retSite>>
    /\ UNCHANGED nodeVars
    /\ UNCHANGED <<entry, msg, crypto, cosig, updArgs, idx, gate, expired,
                   wokenBy, calls, pre>>

\* Lines 182-189.
CheckShard(t) ==
    /\ pc[t] = "check_shard"
    /\ IF ShardMissing(msg[t], m_shards)
       THEN Return(t, FALSE, 188)
       ELSE /\ pc' = [pc EXCEPT ![t] = "check_leader_id"]
            /\ UNCHANGED <<ret, retSite>>
    /\ UNCHANGED nodeVars
    /\ UNCHANGED <<entry, msg, crypto, cosig, updArgs, idx, gate, expired,
                   wokenBy, calls, pre>>

\* Lines 191-203.
CheckLeaderId(t) ==
    /\ pc[t] = "check_leader_id"
    /\ IF LeaderIdOutOfRange(msg[t], m_shards)
       THEN Return(t, FALSE, 202)
       ELSE /\ pc' = [pc EXCEPT ![t] = "check_leader"]
            /\ UNCHANGED <<ret, retSite>>
    /\ UNCHANGED nodeVars
    /\ UNCHANGED <<entry, msg, crypto, cosig, updArgs, idx, gate, expired,
                   wokenBy, calls, pre>>

\* Lines 205-228.
CheckLeader(t) ==
    /\ pc[t] = "check_leader"
    /\ IF ~LeaderFound(msg[t], m_shards)
       THEN Return(t, FALSE, 227)
       ELSE /\ pc' = [pc EXCEPT ![t] = "check_root"]
            /\ UNCHANGED <<ret, retSite>>
    /\ UNCHANGED nodeVars
    /\ UNCHANGED <<entry, msg, crypto, cosig, updArgs, idx, gate, expired,
                   wokenBy, calls, pre>>

\* Mutant of CheckRoot: the erase of lines 257-260 hoisted above the
\* state-root check.
CheckRootAfterErase(t) ==
    /\ pc[t] = "check_root"
    /\ calls' = [calls EXCEPT ![t] = Append(@, "GetStateRootHash")]
    /\ m_processedTransactions' = m_processedTransactions \ {m_currentEpochNum}
    /\ IF RootMismatch(msg[t], stateRootHash)
       THEN Return(t, FALSE, 241)
       ELSE /\ pc' = [pc EXCEPT ![t] = "verify"]
            /\ UNCHANGED <<ret, retSite>>
    /\ UNCHANGED <<m_shards, m_DSCommittee, mutexDSCommittee, m_state,
                   m_currentEpochNum, stateRootHash, lookupNodeMode,
                   createdTransactions, microblockConsensusBuffer,
                   tempAccountStore, m_consensusID, m_consensusLeaderID,
                   powInitiated, detachedTasks, mutexCVFallbackBlock,
                   cvWaiters, watchdogsRun, lastUpdate>>
    /\ UNCHANGED <<entry, msg, crypto, cosig, updArgs, idx, gate, expired,
                   wokenBy, pre>>

\* Lines 230-242.
CheckRoot(t) ==
    /\ pc[t] = "check_root"
    /\ calls' = [calls EXCEPT ![t] = Append(@, "GetStateRootHash")]
    /\ IF RootMismatch(msg[t], stateRootHash)
       THEN Return(t, FALSE, 241)
       ELSE /\ pc' = [pc EXCEPT ![t] = "verify"]
            /\ UNCHANGED <<ret, retSite>>
    /\ UNCHANGED nodeVars
    /\ UNCHANGED <<entry, msg, crypto, cosig, updArgs, idx, gate, expired,
                   wokenBy, pre>>

\* Mutant of VerifyStep: the notify_all of line 252 hoisted above the call
\* of UpdateDSCommittee.
VerifyStepNotifiesFirst(t) ==
    /\ pc[t] = "verify"
    /\ \E cr \in CryptoResults(msg[t]) :
       \E o \in VerifyFallbackBlockCoSignature(m_shards, msg[t], cr) :
         /\ crypto' = [crypto EXCEPT ![t] = cr]
         /\ cosig' = [cosig EXCEPT ![t] = o]
         /\ calls' = [calls EXCEPT ![t] =
                         (@ \o <<"VerifyFallbackBlockCoSignature">>) \o o.calls]
         /\ IF ~o.ret
            THEN /\ Return(t, FALSE, 248)
                 /\ UNCHANGED <<updArgs, cvWaiters, wokenBy>>
            ELSE /\ updArgs' = [updArgs EXCEPT ![t] =
                                   Args(msg[t].shardId, msg[t].leaderPubKey,
                                        msg[t].leaderNetworkInfo)]
                 /\ cvWaiters' = {}
                 /\ wokenBy' = [u \in Threads |->
                                   IF u \in cvWaiters THEN "commit"
                                   ELSE wokenBy[u]]
                 /\ pc' = [u \in Threads |->
                              IF u = t THEN "upd_lock"
                              ELSE IF u \in cvWaiters THEN "gate_wake"
                              ELSE pc[u]]
                 /\ UNCHANGED <<ret, retSite>>
    /\ UNCHANGED <<m_shards, m_DSCommittee, mutexDSCommittee, m_state,
                   m_currentEpochNum, stateRootHash, lookupNodeMode,
                   m_processedTransactions, createdTransactions,
                   microblockConsensusBuffer, tempAccountStore,
                   m_consensusID, m_consensusLeaderID, powInitiated,
                   detachedTasks, mutexCVFallbackBlock, watchdogsRun,
                   lastUpdate>>
    /\ UNCHANGED <<entry, msg, idx, gate, expired, pre>>

\* Mutant of VerifyStep: a block that arrives after a reconstitution has
\* finished is refused.
VerifyStepOncePerEpoch(t) ==
    /\ pc[t] = "verify"
    /\ \E cr \in CryptoResults(msg[t]) :
       \E o \in VerifyFallbackBlockCoSignature(m_shards, msg[t], cr) :
         /\ crypto' = [crypto EXCEPT ![t] = cr]
         /\ cosig' = [cosig EXCEPT ![t] = o]
         /\ calls' = [calls EXCEPT ![t] =
                         (@ \o <<"VerifyFallbackBlockCoSignature">>) \o o.calls]
         /\ IF ~o.ret \/ lastUpdate # NoArgs
            THEN /\ Return(t, FALSE, 248)
                 /\ UNCHANGED updArgs
            ELSE /\ updArgs' = [updArgs EXCEPT ![t] =
                                   Args(msg[t].shardId, msg[t].leaderPubKey,
                                        msg[t].leaderNetworkInfo)]
                 /\ pc' = [pc EXCEPT ![t] = "upd_lock"]
                 /\ UNCHANGED <<ret, retSite>>
    /\ UNCHANGED nodeVars
    /\ UNCHANGED <<entry, msg, idx, gate, expired, wokenBy, pre>>

\* Lines 244-251: the verifier runs; on true UpdateDSCommittee is called
\* with the header's shard id and leader.
VerifyStep(t) ==
    /\ pc[t] = "verify"
    /\ \E cr \in CryptoResults(msg[t]) :
       \E o \in VerifyFallbackBlockCoSignature(m_shards, msg[t], cr) :
         /\ crypto' = [crypto EXCEPT ![t] = cr]
         /\ cosig' = [cosig EXCEPT ![t] = o]
         /\ calls' = [calls EXCEPT ![t] =
                         (@ \o <<"VerifyFallbackBlockCoSignature">>) \o o.calls]
         /\ IF ~o.ret
            THEN /\ Return(t, FALSE, 248)
                 /\ UNCHANGED updArgs
            ELSE /\ updArgs' = [updArgs EXCEPT ![t] =
                                   Args(msg[t].shardId, msg[t].leaderPubKey,
                                        msg[t].leaderNetworkInfo)]
                 /\ pc' = [pc EXCEPT ![t] = "upd_lock"]
                 /\ UNCHANGED <<ret, retSite>>
    /\ UNCHANGED nodeVars
    /\ UNCHANGED <<entry, msg, idx, gate, expired, wokenBy, pre>>

\* Mutant of Notify: the branches of line 254 exchanged.
NotifyBranchesExchanged(t) ==
    /\ pc[t] = "notify"
    /\ cvWaiters' = {}
    /\ wokenBy' = [u \in Threads |->
                      IF u \in cvWaiters THEN "commit" ELSE wokenBy[u]]
    /\ pc' = [u \in Threads |->
                 IF u = t
                 THEN (IF lookupNodeMode THEN "erase_processed" ELSE "reset_ids")
                 ELSE IF u \in cvWaiters THEN "gate_wake" ELSE pc[u]]
    /\ calls' = [calls EXCEPT ![t] = Append(@, "notify_all")]
    /\ UNCHANGED <<m_shards, m_DSCommittee, mutexDSCommittee, m_state,
                   m_currentEpochNum, stateRootHash, lookupNodeMode,
                   m_processedTransactions, createdTransactions,
                   microblockConsensusBuffer, tempAccountStore,
                   m_consensusID, m_consensusLeaderID, powInitiated,
                   detachedTasks, mutexCVFallbackBlock, watchdogsRun,
                   lastUpdate>>
    /\ UNCHANGED <<entry, msg, crypto, cosig, updArgs, idx, gate, expired,
                   ret, retSite, pre>>

\* Line 252: notify_all on cv_fallbackBlock, the condition variable of the
\* wait of line 145, so every thread blocked there is woken; then the
\* branch of line 254.
Notify(t) ==
    /\ pc[t] = "notify"
    /\ cvWaiters' = {}
    /\ wokenBy' = [u \in Threads |->
                      IF u \in cvWaiters THEN "commit" ELSE wokenBy[u]]
    /\ pc' = [u \in Threads |->
                 IF u = t
                 THEN (IF lookupNodeMode THEN "reset_ids" ELSE "erase_processed")
                 ELSE IF u \in cvWaiters THEN "gate_wake" ELSE pc[u]]
    /\ calls' = [calls EXCEPT ![t] = Append(@, "notify_all")]
    /\ UNCHANGED <<m_shards, m_DSCommittee, mutexDSCommittee, m_state,
                   m_currentEpochNum, stateRootHash, lookupNodeMode,
                   m_processedTransactions, createdTransactions,
                   microblockConsensusBuffer, tempAccountStore,
                   m_consensusID, m_consensusLeaderID, powInitiated,
                   detachedTasks, mutexCVFallbackBlock, watchdogsRun,
                   lastUpdate>>
    /\ UNCHANGED <<entry, msg, crypto, cosig, updArgs, idx, gate, expired,
                   ret, retSite, pre>>

\* Lines 257-260.
EraseProcessed(t) ==
    /\ pc[t] = "erase_processed"
    /\ m_processedTransactions' = m_processedTransactions \ {m_currentEpochNum}
    /\ calls' = [calls EXCEPT ![t] = Append(@, "erase")]
    /\ pc' = [pc EXCEPT ![t] = "clean_created"]
    /\ UNCHANGED <<m_shards, m_DSCommittee, mutexDSCommittee, m_state,
                   m_currentEpochNum, stateRootHash, lookupNodeMode,
                   createdTransactions, microblockConsensusBuffer,
                   tempAccountStore, m_consensusID, m_consensusLeaderID,
                   powInitiated, detachedTasks, mutexCVFallbackBlock,
                   cvWaiters, watchdogsRun, lastUpdate>>
    /\ UNCHANGED <<entry, msg, crypto, cosig, updArgs, idx, gate, expired,
                   wokenBy, ret, retSite, pre>>

\* Line 262.
CleanCreated(t) ==
    /\ pc[t] = "clean_created"
    /\ createdTransactions' = FALSE
    /\ calls' = [calls EXCEPT ![t] = Append(@, "CleanCreatedTransaction")]
    /\ pc' = [pc EXCEPT ![t] = "clean_buffer"]
    /\ UNCHANGED <<m_shards, m_DSCommittee, mutexDSCommittee, m_state,
                   m_currentEpochNum, stateRootHash, lookupNodeMode,
                   m_processedTransactions, microblockConsensusBuffer,
                   tempAccountStore, m_consensusID, m_consensusLeaderID,
                   powInitiated, detachedTasks, mutexCVFallbackBlock,
                   cvWaiters, watchdogsRun, lastUpdate>>
    /\ UNCHANGED <<entry, msg, crypto, cosig, updArgs, idx, gate, expired,
                   wokenBy, ret, retSite, pre>>

\* Line 264.
CleanBuffer(t) ==
    /\ pc[t] = "clean_buffer"
    /\ microblockConsensusBuffer' = FALSE
    /\ calls' = [calls EXCEPT ![t] = Append(@, "CleanMicroblockConsensusBuffer")]
    /\ pc' = [pc EXCEPT ![t] = "init_temp"]
    /\ UNCHANGED <<m_shards, m_DSCommittee, mutexDSCommittee, m_state,
                   m_currentEpochNum, stateRootHash, lookupNodeMode,
                   m_processedTransactions, createdTransactions,
                   tempAccountStore, m_consensusID, m_consensusLeaderID,
                   powInitiated, detachedTasks, mutexCVFallbackBlock,
                   cvWaiters, watchdogsRun, lastUpdate>>
    /\ UNCHANGED <<entry, msg, crypto, cosig, updArgs, idx, gate, expired,
                   wokenBy, ret, retSite, pre>>

\* Line 266.
InitTemp(t) ==
    /\ pc[t] = "init_temp"
    /\ tempAccountStore' = "fresh"
    /\ calls' = [calls EXCEPT ![t] = Append(@, "InitTemp")]
    /\ pc' = [pc EXCEPT ![t] = "initiate_pow"]
    /\ UNCHANGED <<m_shards, m_DSCommittee, mutexDSCommittee, m_state,
                   m_currentEpochNum, stateRootHash, lookupNodeMode,
                   m_processedTransactions, createdTransactions,
                   microblockConsensusBuffer, m_consensusID,
                   m_consensusLeaderID, powInitiated, detachedTasks,
                   mutexCVFallbackBlock, cvWaiters, watchdogsRun, lastUpdate>>
    /\ UNCHANGED <<entry, msg, crypto, cosig, updArgs, idx, gate, expired,
                   wokenBy, ret, retSite, pre>>

\* Line 268.
InitiatePoW(t) ==
    /\ pc[t] = "initiate_pow"
    /\ powInitiated' = powInitiated + 1
    /\ calls' = [calls EXCEPT ![t] = Append(@, "InitiatePoW")]
    /\ pc' = [pc EXCEPT ![t] = "detach"]
    /\ UNCHANGED <<m_shards, m_DSCommittee, mutexDSCommittee, m_state,
                   m_currentEpochNum, stateRootHash, lookupNodeMode,
                   m_processedTransactions, createdTransactions,
                   microblockConsensusBuffer, tempAccountStore,
                   m_consensusID, m_consensusLeaderID, detachedTasks,
                   mutexCVFallbackBlock, cvWaiters, watchdogsRun, lastUpdate>>
    /\ UNCHANGED <<entry, msg, crypto, cosig, updArgs, idx, gate, expired,
                   wokenBy, ret, retSite, pre>>

\* Lines 272-273.
ResetIds(t) ==
    /\ pc[t] = "reset_ids"
    /\ m_consensusID' = 0
    /\ m_consensusLeaderID' = 0
    /\ pc' = [pc EXCEPT ![t] = "detach"]
    /\ UNCHANGED <<m_shards, m_DSCommittee, mutexDSCommittee, m_state,
                   m_currentEpochNum, stateRootHash, lookupNodeMode,
                   m_processedTransactions, createdTransactions,
                   microblockConsensusBuffer, tempAccountStore,
                   powInitiated, detachedTasks, mutexCVFallbackBlock,
                   cvWaiters, watchdogsRun, lastUpdate>>
    /\ UNCHANGED <<entry, msg, crypto, cosig, updArgs, idx, gate, expired,
                   wokenBy, ret, retSite, calls, pre>>

\* Lines 281-282: ScheduleFallbackTimeout is launched on a detached thread.
Detach(t) ==
    /\ pc[t] = "detach"
    /\ detachedTasks' = detachedTasks + 1
    /\ calls' = [calls EXCEPT ![t] = Append(@, "DetachedFunction")]
    /\ pc' = [pc EXCEPT ![t] = "return_true"]
    /\ UNCHANGED <<m_shards, m_DSCommittee, mutexDSCommittee, m_state,
                   m_currentEpochNum, stateRootHash, lookupNodeMode,
                   m_processedTransactions, createdTransactions,
                   microblockConsensusBuffer, tempAccountStore,
                   m_consensusID, m_consensusLeaderID, powInitiated,
                   mutexCVFallbackBlock, cvWaiters, watchdogsRun, lastUpdate>>
    /\ UNCHANGED <<entry, msg, crypto, cosig, updArgs, idx, gate, expired,
                   wokenBy, ret, retSite, pre>>

\* Mutant of ReturnTrue: the handler joins the thread it launched.
ReturnTrueJoins(t) ==
    /\ pc[t] = "return_true"
    /\ watchdogsRun = detachedTasks
    /\ Return(t, TRUE, 284)
    /\ UNCHANGED nodeVars
    /\ UNCHANGED <<entry, msg, crypto, cosig, updArgs, idx, gate, expired,
                   wokenBy, calls, pre>>

\* Line 284.
ReturnTrue(t) ==
    /\ pc[t] = "return_true"
    /\ Return(t, TRUE, 284)
    /\ UNCHANGED nodeVars
    /\ UNCHANGED <<entry, msg, crypto, cosig, updArgs, idx, gate, expired,
                   wokenBy, calls, pre>>

\* ------------------------------------------------------------ environment

NodeStates == {"WAITING_FALLBACKBLOCK", "FALLBACK_CONSENSUS"}

\* The component that owns m_state moves it; entering
\* WAITING_FALLBACKBLOCK is signalled on cv_fallbackBlock.
SetState(s) ==
    /\ s # m_state
    /\ m_state' = s
    /\ IF s = "WAITING_FALLBACKBLOCK"
       THEN NotifyAll
       ELSE UNCHANGED <<cvWaiters, pc, wokenBy>>
    /\ UNCHANGED <<m_shards, m_DSCommittee, mutexDSCommittee,
                   m_currentEpochNum, stateRootHash, lookupNodeMode,
                   m_processedTransactions, createdTransactions,
                   microblockConsensusBuffer, tempAccountStore,
                   m_consensusID, m_consensusLeaderID, powInitiated,
                   detachedTasks, mutexCVFallbackBlock, watchdogsRun,
                   lastUpdate>>
    /\ UNCHANGED <<entry, msg, crypto, cosig, updArgs, idx, gate, expired,
                   ret, retSite, calls, pre>>

\* The network layer hands a message to a further handler thread.
Spawn(t) ==
    /\ pc[t] = "off"
    /\ pc' = [pc EXCEPT ![t] = "idle"]
    /\ UNCHANGED nodeVars
    /\ UNCHANGED <<entry, msg, crypto, cosig, updArgs, idx, gate, expired,
                   wokenBy, ret, retSite, calls, pre>>

\* A detached ScheduleFallbackTimeout thread gets to run.
RunScheduleFallbackTimeout ==
    /\ watchdogsRun < detachedTasks
    /\ watchdogsRun' = watchdogsRun + 1
    /\ UNCHANGED <<m_shards, m_DSCommittee, mutexDSCommittee, m_state,
                   m_currentEpochNum, stateRootHash, lookupNodeMode,
                   m_processedTransactions, createdTransactions,
                   microblockConsensusBuffer, tempAccountStore,
                   m_consensusID, m_consensusLeaderID, powInitiated,
                   detachedTasks, mutexCVFallbackBlock, cvWaiters,
                   lastUpdate>>
    /\ UNCHANGED threadVars

\* ------------------------------------------------------- specifications

\* One handler thread of a node whose directory holds a shard of
\* MaxShardSize members and a second, smaller one.
Init ==
    /\ m_shards = <<Roster(MaxShardSize), OtherShard>>
    /\ m_DSCommittee = <<Node("k2", "p2"), Node("k1", "p1")>>
    /\ m_state \in NodeStates
    /\ lookupNodeMode \in BOOLEAN
    /\ InitRest

\* The steps of thread t at the readiness gate (lines 137-158).
GateStep(t) ==
    \/ CheckStateStep(t)
    \/ GateLock(t)
    \/ GatePred(t)
    \/ GateTimeout(t)
    \/ GateWake(t)
    \/ GateFinal(t)

\* The checks of a decoded block (lines 169-249).
CheckStep(t) ==
    \/ CheckEpoch(t)
    \/ CheckShard(t)
    \/ CheckLeaderId(t)
    \/ CheckLeader(t)
    \/ CheckRoot(t)
    \/ VerifyStep(t)

\* Commit, cleanup and the launch of the next timeout (lines 251-284).
CommitStep(t) ==
    \/ UpdLock(t)
    \/ UpdClear(t)
    \/ UpdLoop(t)
    \/ UpdUnlock(t)
    \/ Notify(t)
    \/ EraseProcessed(t)
    \/ CleanCreated(t)
    \/ CleanBuffer(t)
    \/ InitTemp(t)
    \/ InitiatePoW(t)
    \/ ResetIds(t)
    \/ Detach(t)
    \/ ReturnTrue(t)

\* The steps of ProcessFallbackBlock that thread t takes.
HandlerStep(t) ==
    \/ GateStep(t)
    \/ Decode(t)
    \/ CheckStep(t)
    \/ CommitStep(t)

Next ==
    \/ \E t \in Threads : Call(t)
    \/ \E t \in Threads : HandlerStep(t)
    \/ \E t \in Threads : TimerExpire(t)
    \/ \E s \in NodeStates : SetState(s)
    \/ RunScheduleFallbackTimeout

Spec == Init /\ [][Next]_vars

\* The handler over the sample blocks.
SampleHandlerStep(t) ==
    \/ GateStep(t)
    \/ DecodeFrom(t, SampleBlocks)
    \/ CheckStep(t)
    \/ CommitStep(t)

NextSample ==
    \/ \E t \in Threads : Call(t)
    \/ \E t \in Threads : SampleHandlerStep(t)
    \/ \E t \in Threads : TimerExpire(t)
    \/ \E s \in NodeStates : SetState(s)
    \/ RunScheduleFallbackTimeout

\* The same node with the scheduling the code runs under: a thread inside
\* the handler keeps being scheduled, and the clock of wait_for keeps
\* running. The codec yields sample blocks.
FairSpec ==
    /\ Init
    /\ [][NextSample]_vars
    /\ \A t \in Threads : WF_vars(SampleHandlerStep(t))
    /\ \A t \in Threads : WF_vars(TimerExpire(t))

\* UpdateDSCommittee on its own, over every shard up to MaxShardSize and the
\* committees left by earlier calls.
InitUpdate ==
    /\ m_shards \in {<<s, OtherShard>> : s \in Shards}
    /\ m_DSCommittee = <<Node("k2", "p2"), Node("k1", "p1")>>
    /\ m_state = "WAITING_FALLBACKBLOCK"
    /\ lookupNodeMode = FALSE
    /\ InitRest

NextUpdate ==
    \E t \in Threads :
        \/ DirectUpdate(t)
        \/ UpdLock(t)
        \/ UpdClear(t)
        \/ UpdLoop(t)
        \/ UpdUnlock(t)

SpecUpdate == InitUpdate /\ [][NextUpdate]_vars

\* The verifier on its own, over shards of every size up to MaxShardSize and
\* every bitmap.
InitVerify ==
    /\ m_shards \in {<<Roster(n), OtherShard>> : n \in 0..MaxShardSize}
    /\ m_DSCommittee = <<>>
    /\ m_state = "WAITING_FALLBACKBLOCK"
    /\ lookupNodeMode = FALSE
    /\ InitRest

NextVerify == \E t \in Threads : DirectVerify(t)

SpecVerify == InitVerify /\ [][NextVerify]_vars

\* Two handler threads over the valid blocks of one epoch. The detached
\* watchdog threads, which touch nothing the handlers read, are left out.
RaceHandlerStep(t) ==
    \/ GateStep(t)
    \/ DecodeFrom(t, RaceBlocks)
    \/ CheckStep(t)
    \/ CommitStep(t)

NextRace ==
    \/ \E t \in Threads : Spawn(t)
    \/ \E t \in Threads : Call(t)
    \/ \E t \in Threads : RaceHandlerStep(t)
    \/ \E t \in Threads : TimerExpire(t)
    \/ \E s \in NodeStates : SetState(s)

SpecRace == Init /\ [][NextRace]_vars

\* ------------------------------------------------------------ properties

\* The elements of a sequence.
Range(s) == {s[i] : i \in 1..Len(s)}

\* Number of flags set in a bitmap.
Flagged(B2) == Cardinality({i \in 1..Len(B2) : B2[i]})

\* Thread t has finished a direct call of the verifier on a block whose
\* shard id names a shard.
VerifiedKnownShard(t) ==
    /\ pc[t] = "done"
    /\ entry[t] = "VerifyFallbackBlockCoSignature"
    /\ msg[t].shardId < Len(m_shards)

\* The shard the block of thread t names.
BlockShard(t) == ShardAt(m_shards, msg[t].shardId)

\* Thread t is in, or has finished, an invocation of ProcessFallbackBlock.
InHandler(t) == entry[t] = "ProcessFallbackBlock" /\ pc[t] # "idle"

Returned(t) == entry[t] = "ProcessFallbackBlock" /\ pc[t] = "done"

\* The codec yielded a block to thread t.
HasBlock(t) == msg[t].epoch >= 0

\* C1: quorum gate. Whenever the verifier has run on a block whose B2 is as
\* long as the shard and flags fewer members than NumForConsensus of that
\* length, it has returned false, whatever AggregatePubKeys and
\* Schnorr::Verify would return for the block.
C1_QuorumGate ==
    \A t \in Threads :
        (/\ VerifiedKnownShard(t)
         /\ Len(msg[t].B2) = Len(BlockShard(t))
         /\ Flagged(msg[t].B2) < NumForConsensus(Len(BlockShard(t))))
        => ~ret[t]

\* C1 witness: a sub-quorum block with a usable aggregate key and a valid
\* CS2 has been rejected at the quorum check.
C1_Witness ==
    /\ VerifiedKnownShard("t1")
    /\ Len(BlockShard("t1")) = 4
    /\ Len(msg["t1"].B2) = 4
    /\ Flagged(msg["t1"].B2) = 2
    /\ crypto["t1"].aggregated
    /\ crypto["t1"].cs2Valid
    /\ ~ret["t1"]
    /\ retSite["t1"] = 100

\* C2: the verifier rejects for the signer count only when it is below the
\* threshold: a block whose B2 is as long as the shard and flags at least
\* NumForConsensus members (up to all of them), whose keys aggregate and
\* whose CS2 verifies, is accepted.
C2_AcceptsQuorumOrMore ==
    \A t \in Threads :
        (/\ VerifiedKnownShard(t)
         /\ Len(msg[t].B2) = Len(BlockShard(t))
         /\ Flagged(msg[t].B2) >= NumForConsensus(Len(BlockShard(t)))
         /\ crypto[t].aggregated
         /\ crypto[t].cs2Valid)
        => ret[t]

\* C3: bitmap/shard size gate. Whenever the verifier has run on a block
\* whose B2 length differs from the size of the shard it names, it has
\* returned false at the size check, with no signer key collected and
\* neither AggregatePubKeys nor Schnorr::Verify invoked.
C3_SizeGate ==
    \A t \in Threads :
        (/\ VerifiedKnownShard(t)
         /\ Len(msg[t].B2) # Len(BlockShard(t)))
        => /\ ~ret[t]
           /\ retSite[t] = 81
           /\ cosig[t].keys = <<>>
           /\ cosig[t].calls = <<>>
           /\ calls[t] = <<>>

\* C3 witness: a bitmap longer than the shard, all of its flags set and CS2
\* valid, has been rejected.
C3_Witness ==
    /\ VerifiedKnownShard("t1")
    /\ Len(BlockShard("t1")) = 3
    /\ Len(msg["t1"].B2) = 4
    /\ Flagged(msg["t1"].B2) = 4
    /\ crypto["t1"].aggregated
    /\ crypto["t1"].cs2Valid
    /\ ~ret["t1"]

\* Thread t has finished a direct call of UpdateDSCommittee.
Updated(t) == pc[t] = "done" /\ entry[t] = "UpdateDSCommittee"

\* The shard and the leader the call of thread t names.
UpdShard(t) == ShardAt(m_shards, updArgs[t].shard_id)

UpdLeader(t) == Node(updArgs[t].leaderPubKey, updArgs[t].leaderNetworkInfo)

Distinct(s) == \A i, j \in 1..Len(s) : s[i] = s[j] => i = j

\* The elements of s other than x, in the order of s.
Others(s, x) == SelectSeq(s, LAMBDA y : y # x)

\* C4: reconstitution ordering. After UpdateDSCommittee on a shard of
\* pairwise distinct members with a leader that is one of them, the
\* committee is the leader followed by the other members in shard order,
\* whatever the committee held before.
C4_Ordering ==
    \A t \in Threads :
        (/\ Updated(t)
         /\ Distinct(UpdShard(t))
         /\ UpdLeader(t) \in Range(UpdShard(t)))
        => m_DSCommittee = <<UpdLeader(t)>> \o Others(UpdShard(t), UpdLeader(t))

\* C4 witness: a shard of four distinct members whose third is the leader;
\* the committee is third, first, second, fourth.
C4_Witness ==
    /\ Updated("t1")
    /\ Len(UpdShard("t1")) = 4
    /\ Distinct(UpdShard("t1"))
    /\ UpdLeader("t1") = UpdShard("t1")[3]
    /\ pre["t1"].committee # <<>>
    /\ m_DSCommittee = <<UpdShard("t1")[3], UpdShard("t1")[1],
                         UpdShard("t1")[2], UpdShard("t1")[4]>>

\* C5: idempotence. When a call of UpdateDSCommittee directly follows a
\* finished call with the same shard id and leader, it leaves the committee
\* as that first call left it.
C5_Idempotent ==
    \A t \in Threads :
        (Updated(t) /\ pre[t].lastUpdate = updArgs[t])
        => m_DSCommittee = pre[t].committee

\* C5 witness: the second of two equal calls on a shard that holds the
\* leader twice among other members has finished.
C5_Witness ==
    /\ Updated("t1")
    /\ pre["t1"].lastUpdate = updArgs["t1"]
    /\ Len(UpdShard("t1")) = 4
    /\ UpdShard("t1")[2] = UpdLeader("t1")
    /\ UpdShard("t1")[4] = UpdLeader("t1")
    /\ UpdShard("t1")[1] # UpdLeader("t1")

\* C6: no partial commit. When ProcessFallbackBlock has returned false, the
\* committee, the processed-transaction map, the created transactions, the
\* microblock-consensus buffer, the temporary account store and the
\* consensus round counters are as when it was entered, no InitiatePoW was
\* made and no ScheduleFallbackTimeout thread launched, and the thread
\* holds no lock; and m_state is never written by a step of the handler.
C6_NoPartialCommit ==
    /\ [](\A t \in Threads :
            (Returned(t) /\ ~ret[t])
            => /\ Snapshot = pre[t]
               /\ mutexDSCommittee # t
               /\ mutexCVFallbackBlock # t
               /\ t \notin cvWaiters)
    /\ [][m_state' # m_state
          => \A t \in Threads :
                \/ pc'[t] = pc[t]
                \/ pc[t] = "gate_blocked" /\ pc'[t] = "gate_wake"]_vars

\* C6 witness: a block that passed every check but the co-signature has
\* been rejected.
C6_Witness ==
    /\ Returned("t1")
    /\ ~ret["t1"]
    /\ retSite["t1"] = 248
    /\ cosig["t1"].site = 124

\* Positions of the handler from the call of UpdateDSCommittee on.
CommitPcs ==
    {"upd_lock", "upd_clear", "upd_loop", "upd_unlock", "notify",
     "erase_processed", "clean_created", "clean_buffer", "init_temp",
     "initiate_pow", "reset_ids", "detach", "return_true"}

\* The block of thread t passes every check of the handler.
PassedEveryCheck(t) ==
    /\ gate[t] \in {"ready", "waited"}
    /\ HasBlock(t)
    /\ msg[t].epoch = m_currentEpochNum
    /\ msg[t].shardId < Len(m_shards)
    /\ msg[t].leaderConsensusId < Len(BlockShard(t))
    /\ Node(msg[t].leaderPubKey, msg[t].leaderNetworkInfo)
           \in Range(BlockShard(t))
    /\ msg[t].stateRootHash = stateRootHash
    /\ cosig[t].ret
    /\ cosig[t].site = 127

\* C7: the handler calls UpdateDSCommittee, and the committee differs from
\* the one it was entered with, only for a message that passed the gate,
\* decoded, and passed the epoch, shard, leader-id, leader-membership,
\* state-root and co-signature checks; and it returns true only then.
C7_CommitOnlyAfterChecks ==
    \A t \in Threads :
        InHandler(t) =>
            /\ (\/ pc[t] \in CommitPcs
                \/ "UpdateDSCommittee" \in Range(calls[t])
                \/ m_DSCommittee # pre[t].committee
                \/ pc[t] = "done" /\ ret[t])
               => PassedEveryCheck(t)
            /\ (pc[t] = "done" /\ ret[t])
               => "UpdateDSCommittee" \in Range(calls[t])

\* C7 witness: the handler has returned true and the committee is led by
\* the block's leader.
C7_Witness ==
    /\ Returned("t1")
    /\ ret["t1"]
    /\ gate["t1"] = "waited"
    /\ m_DSCommittee # pre["t1"].committee
    /\ m_DSCommittee[1] = Node(msg["t1"].leaderPubKey,
                               msg["t1"].leaderNetworkInfo)

\* Apart from the epoch and the state root, the block of thread t is one
\* the handler accepts: known shard, leader id in range, leader a member,
\* B2 of the shard's length flagging exactly the quorum, CS2 valid.
OtherwiseValid(t) ==
    /\ HasBlock(t)
    /\ msg[t].shardId < Len(m_shards)
    /\ msg[t].leaderConsensusId < Len(BlockShard(t))
    /\ Node(msg[t].leaderPubKey, msg[t].leaderNetworkInfo)
           \in Range(BlockShard(t))
    /\ Len(msg[t].B2) = Len(BlockShard(t))
    /\ Flagged(msg[t].B2) = NumForConsensus(Len(BlockShard(t)))
    /\ msg[t].CS2 = "valid"

\* C8: epoch gate. A decoded block whose fallbackEpochNo differs from the
\* current epoch goes no further than the epoch check: the handler returns
\* false there and the committee is as it was on entry.
C8_EpochGate ==
    \A t \in Threads :
        (InHandler(t) /\ HasBlock(t) /\ msg[t].epoch # m_currentEpochNum)
        => /\ pc[t] \in {"check_epoch", "done"}
           /\ pc[t] = "done" =>
                 /\ ~ret[t]
                 /\ retSite[t] = 179
                 /\ m_DSCommittee = pre[t].committee

\* C8 witness: a block of a later epoch, valid in everything else, has
\* been rejected.
C8_Witness ==
    /\ Returned("t1")
    /\ msg["t1"].epoch > m_currentEpochNum
    /\ OtherwiseValid("t1")
    /\ msg["t1"].stateRootHash = stateRootHash
    /\ ~ret["t1"]

\* C9: state-root gate. A decoded block whose state root differs from the
\* local one goes no further than the state-root check: the handler
\* returns false at or before it, the committee is as it was on entry, and
\* the verifier has not been invoked.
C9_StateRootGate ==
    \A t \in Threads :
        (InHandler(t) /\ HasBlock(t) /\ msg[t].stateRootHash # stateRootHash)
        => /\ pc[t] \in {"check_epoch", "check_shard", "check_leader_id",
                         "check_leader", "check_root", "done"}
           /\ "VerifyFallbackBlockCoSignature" \notin Range(calls[t])
           /\ cosig[t] = NoOutcome
           /\ pc[t] = "done" =>
                 /\ ~ret[t]
                 /\ retSite[t] \in {179, 188, 202, 227, 241}
                 /\ m_DSCommittee = pre[t].committee

\* C9 witness: a block of the current epoch with a valid quorum
\* co-signature and a foreign state root has been rejected at the
\* state-root check.
C9_Witness ==
    /\ Returned("t1")
    /\ msg["t1"].epoch = m_currentEpochNum
    /\ OtherwiseValid("t1")
    /\ msg["t1"].stateRootHash # stateRootHash
    /\ ~ret["t1"]
    /\ retSite["t1"] = 241

\* Thread t is at the readiness gate (lines 144-157).
InGate(t) ==
    pc[t] \in {"gate_lock", "gate_pred", "gate_blocked", "gate_wake",
               "gate_final"}

\* C10: readiness timeout. If CheckState refused and m_state is not
\* WAITING_FALLBACKBLOCK at any time the invocation is at the gate, the
\* invocation eventually returns false from the gate, with the committee
\* as on entry and the message never decoded.
C10_ReadinessTimeout ==
    \A t \in Threads :
        (/\ pc[t] = "gate_lock"
         /\ [](InGate(t) => m_state # "WAITING_FALLBACKBLOCK"))
        ~> (/\ pc[t] = "done"
            /\ ~ret[t]
            /\ retSite[t] = 156
            /\ m_DSCommittee = pre[t].committee
            /\ ~HasBlock(t)
            /\ "GetNodeFallbackBlock" \notin Range(calls[t]))

\* C10 witness: the handler has returned false from the gate after the
\* deadline passed.
C10_Witness ==
    /\ Returned("t1")
    /\ ~ret["t1"]
    /\ retSite["t1"] = 156
    /\ gate["t1"] = "timeout"
    /\ calls["t1"] = <<"CheckState", "wait_for">>

\* C11: the verifier called directly on any block, its shard id naming a
\* shard or not, runs to one of its return statements: it never indexes
\* m_shards outside its range and never ends otherwise than by returning a
\* boolean.
C11_VerifierTotal ==
    \A t \in Threads :
        (entry[t] = "VerifyFallbackBlockCoSignature" /\ pc[t] # "idle")
        => /\ pc[t] = "done"
           /\ ~cosig[t].oob
           /\ retSite[t] \in {81, 100, 107, 124, 127}

\* C12: the notify_all of the commit never wakes a thread blocked in the
\* wait_for of the readiness gate: such a thread is woken only by the owner
\* of m_state or by its deadline.
C12_CommitSparesGateWaiters ==
    \A t \in Threads :
        pc[t] = "gate_wake" => wokenBy[t] \in {"state", "deadline"}

\* Thread t is inside UpdateDSCommittee past line 43.
Rebuilding(t) == pc[t] \in {"upd_clear", "upd_loop", "upd_unlock"}

\* C13: atomic rebuild. A thread inside UpdateDSCommittee, from before the
\* clear until after the last insertion, holds m_mutexDSCommittee; so
\* whenever the mutex is free to be taken by a reader, the committee is
\* complete: the one every invocation was entered with if no
\* reconstitution has finished, and otherwise exactly what the last
\* finished reconstitution built, never an empty or partial list.
C13_AtomicRebuild ==
    /\ \A t \in Threads : Rebuilding(t) => mutexDSCommittee = t
    /\ mutexDSCommittee = None =>
          IF lastUpdate = NoArgs
          THEN \A t \in Threads : m_DSCommittee = pre[t].committee
          ELSE m_DSCommittee = Reconstituted(m_shards, lastUpdate)

\* C13 witness: one thread is half way through the rebuild of the first
\* shard, the committee holding two of its members, while the other waits
\* at line 43 to rebuild for another leader.
C13_Witness ==
    /\ pc["t1"] = "upd_loop"
    /\ idx["t1"] = 3
    /\ Len(m_DSCommittee) = 2
    /\ Len(UpdShard("t1")) > 2
    /\ mutexDSCommittee = "t1"
    /\ pc["t2"] = "upd_lock"
    /\ updArgs["t2"] # updArgs["t1"]

\* C14: readiness gate success. An invocation whose CheckState succeeds
\* goes straight to the decode and never enters wait_for; an invocation at
\* the gate that evaluates its predicate while m_state is
\* WAITING_FALLBACKBLOCK, before or after the deadline, goes on to the
\* decode instead of returning; and an invocation at the gate during which
\* m_state is and stays WAITING_FALLBACKBLOCK eventually decodes.
C14_ReadinessSuccess ==
    /\ [](\A t \in Threads :
            gate[t] = "ready" =>
                /\ "wait_for" \notin Range(calls[t])
                /\ t \notin cvWaiters
                /\ ~InGate(t))
    /\ [][\A t \in Threads :
            /\ (pc[t] = "check_state" /\ pc'[t] # pc[t] /\ CheckState(m_state))
               => pc'[t] = "decode"
            /\ (/\ pc[t] \in {"gate_pred", "gate_final"}
                /\ pc'[t] # pc[t]
                /\ m_state = "WAITING_FALLBACKBLOCK")
               => (pc'[t] = "decode" /\ gate'[t] = "waited")]_vars
    /\ \A t \in Threads :
        (/\ InGate(t)
         /\ [](InGate(t) => m_state = "WAITING_FALLBACKBLOCK"))
        ~> (/\ gate[t] = "waited"
            /\ ~InGate(t)
            /\ "GetNodeFallbackBlock" \in Range(calls[t]))

\* C14 witness: an invocation that CheckState refused has left wait_for
\* with its predicate true and decoded a block.
C14_Witness ==
    /\ pc["t1"] = "check_epoch"
    /\ gate["t1"] = "waited"
    /\ calls["t1"] = <<"CheckState", "wait_for", "GetNodeFallbackBlock">>
    /\ HasBlock("t1")
    /\ m_state = "WAITING_FALLBACKBLOCK"

\* The leader a finished call of UpdateDSCommittee named.
ArgsLeader(args) == Node(args.leaderPubKey, args.leaderNetworkInfo)

\* C15: same-epoch race. With two valid blocks of the current epoch
\* handled by two threads, at once or one after the other: a block that was
\* decoded is never refused because the other was committed first (it is
\* refused only if AggregatePubKeys yields no key); every invocation that
\* returns true has called UpdateDSCommittee; and once both have returned
\* true the committee is exactly what the reconstitution that held the
\* committee mutex last built, led by its leader, which for equal shard
\* and leader is the committee either block alone would leave.
C15_SameEpochRace ==
    /\ \A t \in Threads :
          (Returned(t) /\ HasBlock(t))
          => /\ ret[t] \/ (retSite[t] = 248 /\ cosig[t].site = 107)
             /\ ret[t] => "UpdateDSCommittee" \in Range(calls[t])
    /\ (\A t \in Threads : Returned(t) /\ ret[t])
          => /\ lastUpdate \in {updArgs[t] : t \in Threads}
             /\ m_DSCommittee = Reconstituted(m_shards, lastUpdate)
             /\ m_DSCommittee[1] = ArgsLeader(lastUpdate)
             /\ updArgs["t1"] = updArgs["t2"]
                => m_DSCommittee = Reconstituted(m_shards, updArgs["t1"])

\* C15 witness: both invocations have returned true for blocks that name
\* different leaders of the first shard; the second thread reconstituted
\* last, after the first had finished its own, and its leader leads.
C15_Witness ==
    /\ \A t \in Threads : Returned(t) /\ ret[t]
    /\ updArgs["t1"].shard_id = updArgs["t2"].shard_id
    /\ ArgsLeader(updArgs["t1"]) # ArgsLeader(updArgs["t2"])
    /\ lastUpdate = updArgs["t2"]
    /\ pre["t2"].lastUpdate = updArgs["t1"]
    /\ m_DSCommittee[1] = ArgsLeader(updArgs["t2"])

\* What the cleanup of lines 254-274 may touch differs from what the
\* invocation of thread t was entered with.
CleanupBegun(t) ==
    \/ m_processedTransactions # pre[t].processed
    \/ createdTransactions # pre[t].created
    \/ microblockConsensusBuffer # pre[t].buffer
    \/ tempAccountStore # pre[t].temp
    \/ powInitiated # pre[t].pow
    \/ m_consensusID # pre[t].consensusID
    \/ m_consensusLeaderID # pre[t].consensusLeaderID

\* C16: mode-dependent cleanup. When ProcessFallbackBlock has returned
\* true outside lookup mode, the processed transactions of the current
\* epoch are erased (other epochs kept), created transactions and the
\* microblock-consensus buffer are cleared, the temporary account store is
\* fresh, InitiatePoW was called once and the consensus round counters are
\* as on entry; in lookup mode none of the former happened and both
\* counters are 0. In either mode nothing of this is touched before
\* UpdateDSCommittee has finished rebuilding the committee.
C16_ModeCleanup ==
    \A t \in Threads :
        InHandler(t) =>
            /\ (pc[t] = "done" /\ ret[t] /\ ~lookupNodeMode)
               => /\ m_processedTransactions
                        = pre[t].processed \ {m_currentEpochNum}
                  /\ createdTransactions = FALSE
                  /\ microblockConsensusBuffer = FALSE
                  /\ tempAccountStore = "fresh"
                  /\ powInitiated = pre[t].pow + 1
                  /\ m_consensusID = pre[t].consensusID
                  /\ m_consensusLeaderID = pre[t].consensusLeaderID
            /\ (pc[t] = "done" /\ ret[t] /\ lookupNodeMode)
               => /\ m_processedTransactions = pre[t].processed
                  /\ createdTransactions = pre[t].created
                  /\ microblockConsensusBuffer = pre[t].buffer
                  /\ tempAccountStore = pre[t].temp
                  /\ powInitiated = pre[t].pow
                  /\ m_consensusID = 0
                  /\ m_consensusLeaderID = 0
            /\ CleanupBegun(t)
               => /\ "UpdateDSCommittee" \in Range(calls[t])
                  /\ ~Rebuilding(t)
                  /\ pc[t] # "upd_lock"
                  /\ mutexDSCommittee # t
                  /\ m_DSCommittee = Reconstituted(m_shards, updArgs[t])

\* C16 witness: in lookup mode the handler has returned true; the round
\* counters, not 0 on entry, are 0, and the processed transactions of the
\* current epoch, the created transactions and the buffer are still there.
C16_Witness ==
    /\ Returned("t1")
    /\ ret["t1"]
    /\ lookupNodeMode
    /\ pre["t1"].consensusID # 0
    /\ pre["t1"].consensusLeaderID # 0
    /\ m_consensusID = 0
    /\ m_consensusLeaderID = 0
    /\ m_currentEpochNum \in m_processedTransactions
    /\ createdTransactions
    /\ microblockConsensusBuffer
    /\ powInitiated = 0

\* How often call occurs in a call log.
Occurrences(log, call) == Cardinality({i \in 1..Len(log) : log[i] = call})

\* The calls that make up the cleanup of lines 254-274.
CleanupCalls ==
    {"erase", "CleanCreatedTransaction", "CleanMicroblockConsensusBuffer",
     "InitTemp", "InitiatePoW"}

\* C17: arming the next timeout. An invocation that has returned true has
\* launched exactly one detached ScheduleFallbackTimeout thread, as its
\* last call, after UpdateDSCommittee and the cleanup; its return does not
\* depend on that thread having run. An invocation that has returned false
\* launched none.
C17_ArmsNextTimeout ==
    \A t \in Threads :
        InHandler(t) =>
            /\ (pc[t] = "done" /\ ret[t])
               => /\ Occurrences(calls[t], "DetachedFunction") = 1
                  /\ calls[t][Len(calls[t])] = "DetachedFunction"
                  /\ "UpdateDSCommittee" \in Range(calls[t])
                  /\ detachedTasks = pre[t].detached + 1
                  /\ lookupNodeMode \/ CleanupCalls \subseteq Range(calls[t])
                  /\ lookupNodeMode => m_consensusLeaderID = 0
            /\ (pc[t] = "done" /\ ~ret[t])
               => /\ "DetachedFunction" \notin Range(calls[t])
                  /\ detachedTasks = pre[t].detached
            /\ pc[t] = "return_true" => ENABLED ReturnTrue(t)

\* C17 witness: the handler has returned true while the thread it launched
\* has not yet run.
C17_Witness ==
    /\ Returned("t1")
    /\ ret["t1"]
    /\ detachedTasks = 1
    /\ watchdogsRun = 0
    /\ ~lookupNodeMode
    /\ Occurrences(calls["t1"], "DetachedFunction") = 1

\* What decides whether the block of thread t, its shard id known and its
\* leaderConsensusId in range, gets as far as AggregatePubKeys;
\* leaderConsensusId does not occur in it.
AcceptableButForId(t) ==
    /\ msg[t].epoch = m_currentEpochNum
    /\ Node(msg[t].leaderPubKey, msg[t].leaderNetworkInfo)
           \in Range(BlockShard(t))
    /\ msg[t].stateRootHash = stateRootHash
    /\ Len(msg[t].B2) = Len(BlockShard(t))
    /\ Flagged(msg[t].B2) = NumForConsensus(Len(BlockShard(t)))

Count(s, x) == Cardinality({i \in 1..Len(s) : s[i] = x})

\* C19: after any call of UpdateDSCommittee the committee is a permutation
\* of the named shard's member list: it has the shard's length and holds
\* every node as often as the shard does, whatever the committee held
\* before and whether or not the leader is a member; when no member
\* matches the leader, the committee is the shard list in its order.
C19_Permutation ==
    \A t \in Threads :
        Updated(t) =>
            /\ Len(m_DSCommittee) = Len(UpdShard(t))
            /\ \A x \in ShardNode :
                  Count(m_DSCommittee, x) = Count(UpdShard(t), x)
            /\ UpdLeader(t) \notin Range(UpdShard(t))
               => m_DSCommittee = UpdShard(t)

\* C19 witness: a call whose leader shares its key, but not its peer, with
\* members of a three-member shard has left the shard list as it is, in
\* place of a committee of other members.
C19_Witness ==
    /\ Updated("t1")
    /\ Len(UpdShard("t1")) = 3
    /\ UpdLeader("t1") \notin Range(UpdShard("t1"))
    /\ \E i \in 1..3 : UpdShard("t1")[i].pubkey = UpdLeader("t1").pubkey
    /\ Range(pre["t1"].committee) \cap Range(UpdShard("t1")) = {}
    /\ m_DSCommittee = UpdShard("t1")

\* Positions of the handler past the notify_all of line 252.
PastNotify ==
    {"erase_processed", "clean_created", "clean_buffer", "init_temp",
     "initiate_pow", "reset_ids", "detach", "return_true"}

\* C20: the notify_all of line 252 is issued when UpdateDSCommittee has
\* finished and released m_mutexDSCommittee, and before any cleanup step.
\* So a thread woken by that broadcast, whenever it can take the mutex,
\* finds the committee a finished reconstitution built, led by the leader
\* of the block of the thread that woke it, or of a later reconstitution.
C20_NotifyAfterRebuild ==
    /\ \A t \in Threads :
          InHandler(t) =>
              /\ pc[t] = "notify"
                 => /\ calls[t][Len(calls[t])] = "UpdateDSCommittee"
                    /\ mutexDSCommittee # t
                    /\ lastUpdate # NoArgs
              /\ (pc[t] \in PastNotify
                  \/ CleanupCalls \cap Range(calls[t]) # {}
                  \/ (pc[t] = "done" /\ ret[t]))
                 => /\ "notify_all" \in Range(calls[t])
                    /\ \A i \in 1..Len(calls[t]) :
                          calls[t][i] = "notify_all"
                          => /\ calls[t][i - 1] = "UpdateDSCommittee"
                             /\ \A j \in 1..i :
                                   calls[t][j] \notin CleanupCalls
    /\ \A u \in Threads :
          (pc[u] = "gate_wake" /\ wokenBy[u] = "commit"
           /\ mutexDSCommittee = None)
          => /\ lastUpdate # NoArgs
             /\ m_DSCommittee = Reconstituted(m_shards, lastUpdate)
             /\ m_DSCommittee[1] = ArgsLeader(lastUpdate)
             /\ \E t \in Threads \ {u} :
                   /\ "notify_all" \in Range(calls[t])
                   /\ lastUpdate = updArgs[t]
                   /\ m_DSCommittee[1]
                         = Node(msg[t].leaderPubKey, msg[t].leaderNetworkInfo)

\* C20 witness: a thread blocked at the gate has been woken by the
\* broadcast of the other thread, which has not begun its cleanup; the
\* committee mutex is free and the committee, changed, is led by the
\* leader of the other thread's block.
C20_Witness ==
    /\ pc["t2"] = "gate_wake"
    /\ wokenBy["t2"] = "commit"
    /\ pc["t1"] = "erase_processed"
    /\ mutexDSCommittee = None
    /\ m_DSCommittee # pre["t1"].committee
    /\ m_DSCommittee[1]
          = Node(msg["t1"].leaderPubKey, msg["t1"].leaderNetworkInfo)
    /\ m_currentEpochNum \in m_processedTransactions

====
